---- MODULE Spec2Model ----
(***************************************************************************)
(* State-machine model of the MazingiraGuard client:                       *)
(*   - App.tsx: authentication gate, agent log, incident store, upload     *)
(*   - components/Chatbot.tsx: chat transcript, streamed sends, video jobs *)
(*   - services/geminiService (MazingiraAgent): analyzeImagery,            *)
(*     generateVideo (submit / poll / download)                            *)
(*                                                                         *)
(* Scheduling: one browser event loop.  A handler runs to its first await  *)
(* without interruption, and every continuation after an await is a step   *)
(* of its own.  State written inside a discrete event handler (click,      *)
(* keydown) is committed by React before the next event is dispatched, so  *)
(* a handler reads the committed value of the state it guards on.          *)
(* State setters of an unmounted component instance are no-ops.            *)
(*                                                                         *)
(* Strings are sequences of tokens; a JavaScript value that may be         *)
(* undefined is a record carrying a presence flag.                         *)
(***************************************************************************)
EXTENDS Integers, Sequences, FiniteSets, TLC

\* ------------------------------------------------------------------ bounds
MaxMounts == 2
MaxSends == 2
MaxChunks == 2

\* --------------------------------------------------------------- variables
VARIABLES
  isAuthenticated,  \* App: useState(false)
  authMode,         \* App: 'login' | 'register'
  authLoading,      \* App: login timer pending
  agentLog,         \* App: newest-first status log
  incidents,        \* App: the incident store, newest first
  isAnalyzing,      \* App: an upload is being analysed
  upload,           \* position of the handleFileUpload invocation in progress
  nUploads,         \* handleFileUpload invocations accepted so far
  outcomes,         \* history: how the uploads ended, as the caller and the log saw it
  activeTab,        \* App: 'dashboard' | 'monitor' | 'reports'
  showFeedbackForm, \* IncidentCard: the form of each mounted card is open
  nSubmits,         \* feedback forms submitted so far (the clock of Date.now())
  inst,             \* number of Chatbot instances mounted so far
  messages,         \* Chatbot: transcript of the mounted instance
  inputValue,       \* Chatbot: text field
  isLoading,        \* Chatbot: a send is in progress
  sends,            \* handleSend invocations past their first await
  nSends,           \* handleSend invocations accepted so far
  nChunks,          \* stream fragments delivered so far
  sendRejected,     \* history: a non-blank send was refused while a stream was open
  nFailed,          \* history: failed sends of the mounted instance
  interrupted,      \* history: the mid-stream failures of the mounted instance
  hasAistudio,      \* environment: window.aistudio exists
  isGeneratingVideo,\* Chatbot: index of the message being visualised, or NoIndex
  videoProgressMsg, \* Chatbot: index into REASSURING_MESSAGES
  videoRef,         \* Chatbot: videoProgressInterval.current of each instance
  timers,           \* window: the interval timers created by setInterval
  jobs,             \* handleGenerateVideo invocations past their first await
  nJobs,            \* handleGenerateVideo invocations accepted so far
  isSpeaking,       \* Chatbot: index of the message being spoken, or NoIndex
  speech,           \* handleSpeech invocations past their first await
  nSpeech,          \* handleSpeech invocations accepted so far
  audioContextRef,  \* Chatbot: audioContextRef.current of each instance is set
  nContexts,        \* window: AudioContext objects created (none is ever closed)
  requests,         \* history: submit requests issued to the backend, by kind
  pcm,              \* the arguments of one decodeAudioData call
  decoded,          \* what that call came to, or NotDecoded
  exported          \* what a click on Export CSV came to, or NotExported

cardVars == <<activeTab, showFeedbackForm, nSubmits>>

storeVars == <<incidents, isAnalyzing, upload, nUploads, outcomes, cardVars>>

appVars == <<isAuthenticated, authMode, authLoading, agentLog, inst, storeVars>>

chatVars == <<inputValue, isLoading, sends, nSends, nChunks, sendRejected, nFailed, interrupted>>

videoVars == <<hasAistudio, isGeneratingVideo, videoProgressMsg, videoRef, timers, jobs, nJobs>>

speechVars == <<isSpeaking, speech, nSpeech, audioContextRef, nContexts>>

toolVars == <<pcm, decoded, exported>>

vars == <<appVars, messages, chatVars, videoVars, speechVars, requests, toolVars>>

\* ------------------------------------------------------------------ strings
GreetingText == <<"MazingiraGuard AI Liaison active. How can I assist your conservation efforts today?">>

ChatErrorText == <<"Error connecting to satellite link. Please try again.">>

\* msg.videoUrl is undefined
NoVideo == <<>>

Msg(r, t) == [role |-> r, text |-> t, videoUrl |-> NoVideo]

InitialMessages == << Msg("model", GreetingText) >>

RECURSIVE TrimStart(_)
TrimStart(s) == IF s # <<>> /\ Head(s) = " " THEN TrimStart(Tail(s)) ELSE s

RECURSIVE TrimEnd(_)
TrimEnd(s) == IF s # <<>> /\ s[Len(s)] = " " THEN TrimEnd(SubSeq(s, 1, Len(s) - 1)) ELSE s

Trim(s) == TrimEnd(TrimStart(s))

\* What the user can have typed into the text field.
Inputs == { <<>>, <<" ">>, <<" ", "q", " ">> }

\* A streamed chunk: GenerateContentResponse.text is string | undefined.
Chunk(has, t) == [hasText |-> has, text |-> t]

Chunks == { Chunk(FALSE, <<>>), Chunk(TRUE, <<>>), Chunk(TRUE, <<"a">>) }

\* The string JavaScript's += appends for a value: undefined becomes "undefined".
JsToString(c) == IF c.hasText THEN c.text ELSE <<"undefined">>

\* fullText += c.text
AppendChunk(fullText, c) == fullText \o JsToString(c)

\* ---------------------------------------------------------------- agent log
LogCap == 20

\* Faulty variant of addLog: no entry is ever evicted.
AddLogUncapped(log, m) == <<m>> \o log

\* addLog: prepend, keep the 19 newest of the previous entries.
AddLog(log, m) == <<m>> \o SubSeq(log, 1, IF Len(log) < LogCap - 1 THEN Len(log) ELSE LogCap - 1)

InitialLog == <<"System initialized.", "Waiting for satellite uplink...">>

LoginMessage(mode) == IF mode = "login" THEN "Authentication Successful" ELSE "New Account Provisioned"

MaxRounds == 19

\* The log after n rounds of login and logout since the page was loaded.
RECURSIVE LoginLog(_)
LoginLog(n) == IF n = 0 THEN InitialLog ELSE AddLog(LoginLog(n - 1), LoginMessage("login"))

\* ----------------------------------------------------- analysis and store
MaxUploads == 2

\* data.confidence < 0.4, with confidences held in hundredths
ConfidenceThreshold == 40

\* A JSON member that may be missing: type is a string or undefined,
\* confidence is a number (in hundredths), null or undefined.
NoType == [has |-> FALSE, val |-> ""]

TypeOf(t) == [has |-> TRUE, val |-> t]

Undefined == [kind |-> "undefined", pct |-> 0]

JsonNull == [kind |-> "null", pct |-> 0]

Num(n) == [kind |-> "number", pct |-> n]

DataTypes == {NoType, TypeOf(""), TypeOf("Poaching Camp")}

DataConfidences == {Undefined, JsonNull, Num(39), Num(40), Num(95)}

\* What generateContent can come back with: a rejection, no text, text that
\* is not JSON, the JSON text null, or a JSON object.  severity and
\* description tell whether the member is there; reasoning tells whether
\* reasoningChain is there and has its four members.
Response(k, t, c) ==
  [kind |-> k, type |-> t, confidence |-> c, severity |-> TRUE, description |-> TRUE, reasoning |-> "complete"]

\* {}: the object without any member
EmptyObject ==
  [kind |-> "object", type |-> NoType, confidence |-> Undefined, severity |-> FALSE, description |-> FALSE,
   reasoning |-> "absent"]

\* The objects that lack one of the other members the schema requires.
Incomplete(resp) ==
  {[resp EXCEPT !.severity = FALSE], [resp EXCEPT !.description = FALSE],
   [resp EXCEPT !.reasoning = "absent"], [resp EXCEPT !.reasoning = "partial"]}

Responses ==
  {Response(k, NoType, Undefined) : k \in {"throw", "noText", "notJson", "null"}}
    \cup {Response("object", t, c) : t \in DataTypes, c \in DataConfidences}
    \cup UNION {Incomplete(Response("object", TypeOf("Poaching Camp"), c)) : c \in {Num(39), Num(95)}}

\* Math.random().toString(36).substring(7)
Ids == {"k1", "k2"}

\* JavaScript's v < 0.4: undefined converts to NaN (false), null to 0.
JsLessThan(v, bound) ==
  CASE v.kind = "number" -> v.pct < bound
    [] v.kind = "null" -> 0 < bound
    [] v.kind = "undefined" -> FALSE

\* JavaScript's !v for a string that may be undefined
JsNot(t) == ~t.has \/ t.val = ""

\* The feedback member of a record that has none
NoFeedback == [accuracyRating |-> "none", timestamp |-> 0]

NoReport ==
  [id |-> "", type |-> "", confidence |-> Undefined, status |-> "none", severity |-> FALSE, description |-> FALSE,
   reasoning |-> "absent", feedback |-> NoFeedback]

\* if (!data.type || data.confidence < 0.4) return null;
Rejected(data) == JsNot(data.type) \/ JsLessThan(data.confidence, ConfidenceThreshold)

\* Lines 511-527: the record is built from the members of data as they are.
Report(data, id) ==
  [id |-> id, type |-> data.type.val, confidence |-> data.confidence, status |-> "Detected",
   severity |-> data.severity, description |-> data.description, reasoning |-> data.reasoning,
   feedback |-> NoFeedback]

\* analyzeImagery: "{}" stands in for a missing text; whatever throws
\* (the request, JSON.parse, a member read on null) ends in return null.
AnalyzeImagery(resp, id) ==
  CASE resp.kind \in {"throw", "notJson", "null"} -> NoReport
    [] resp.kind = "noText" -> IF Rejected(EmptyObject) THEN NoReport ELSE Report(EmptyObject, id)
    [] resp.kind = "object" -> IF Rejected(resp) THEN NoReport ELSE Report(resp, id)

IdleUpload == [pc |-> "idle"]

\* Why an analysis ended the way it did: the request or the parsing failed,
\* the answer carried no text, the object was rejected by the threshold test,
\* or a record was built.
Cause(resp) ==
  CASE resp.kind \in {"throw", "notJson", "null"} -> "failure"
    [] resp.kind = "noText" -> "noText"
    [] resp.kind = "object" -> IF Rejected(resp) THEN "belowThreshold" ELSE "accepted"

\* What was observable of an upload's end: the value analyzeImagery returned,
\* the entries added to the log, and whether the store changed.
Outcome(c, r, l, st) == [cause |-> c, returned |-> r, logged |-> l, stored |-> st]

\* ----------------------------------------------------------- audio helpers
Thrown(name) == [kind |-> "throw", error |-> name]

MaxBytes == 8

\* Byte values that give samples of both signs and tell the byte order apart
Bytes == {1, 128, 255}

ChannelCounts == {1, 2}

\* decode: atob and the copy of the char codes into a Uint8Array
Decode(binaryString) == [i \in DOMAIN binaryString |-> binaryString[i] % 256]

NoCall == [data |-> <<>>, numChannels |-> 0]

NotDecoded == [kind |-> "none"]

Calls ==
  {[data |-> Decode(b), numChannels |-> n] :
     b \in UNION {[1..len -> Bytes] : len \in 0..MaxBytes}, n \in ChannelCounts}

Scale == 32768

\* An element of an Int16Array: the two's complement reading of 16 bits
ToInt16(u) == IF u >= Scale THEN u - 2 * Scale ELSE u

\* new Int16Array(data.buffer): element k (from 0) is made of bytes 2k and
\* 2k + 1 of the buffer, low byte first
DataInt16(data) == [k \in 0..((Len(data) \div 2) - 1) |-> ToInt16(data[2 * k + 1] + 256 * data[2 * k + 2])]

\* A sample of a channel: value / 32768.0, which a 32-bit float holds exactly
Sample(v) == [num |-> v, den |-> Scale]

\* The planar reading: the samples of one channel lie next to each other
SampleIndexPlanar(i, channel, numChannels, frames) == channel * frames + i

\* dataInt16[i * numChannels + channel]
SampleIndex(i, channel, numChannels, frames) == i * numChannels + channel

\* decodeAudioData.  The Int16Array constructor throws a RangeError for a
\* buffer of odd length; createBuffer takes the frame count as an unsigned
\* long (the fraction of dataInt16.length / numChannels is dropped) and
\* throws a NotSupportedError for 0 frames; writes of the loop beyond the
\* end of a channel are ignored.
DecodeAudioData(data, numChannels) ==
  IF Len(data) % 2 # 0 THEN Thrown("RangeError")
  ELSE LET dataInt16 == DataInt16(data)
           frames == (Len(data) \div 2) \div numChannels
       IN IF frames = 0 THEN Thrown("NotSupportedError")
          ELSE [kind |-> "buffer", numberOfChannels |-> numChannels, length |-> frames,
                channelData |-> [channel \in 0..(numChannels - 1) |->
                                  [i \in 0..(frames - 1) |->
                                     Sample(dataInt16[SampleIndex(i, channel, numChannels, frames)])]]]

\* ---------------------------------------------------------- export helpers
MaxRecords == 2

MaxText == 2

\* Characters of a description: a letter, the double quote, the line feed
\* and the number sign
Chars == {"a", "\"", "\n", "#"}

\* A description the model returned, or the member that is missing
Text(t) == [has |-> TRUE, val |-> t]

NoText == [has |-> FALSE, val |-> <<>>]

Descriptions == {NoText} \cup {Text(t) : t \in UNION {[1..len -> Chars] : len \in 0..MaxText}}

NotExported == [kind |-> "none"]

\* The stores the export is run on: n stored records with every description.
Registries(n) ==
  {[i \in 1..n |-> [Report(Response("object", TypeOf("Poaching Camp"), Num(95)),
                            IF i % 2 = 1 THEN "k1" ELSE "k2") EXCEPT !.description = d[i]]] :
     d \in [1..n -> Descriptions]}

RECURSIVE Flatten(_)
\* The concatenation of a sequence of texts
Flatten(ts) == IF ts = <<>> THEN <<>> ELSE Head(ts) \o Flatten(Tail(ts))

\* Array.prototype.join
Join(ts, sep) == Flatten([i \in DOMAIN ts |-> IF i = 1 THEN ts[i] ELSE sep \o ts[i]])

\* description.replace(/"/g, '""')
DoubleQuotes(t) == Flatten([i \in DOMAIN t |-> IF t[i] = "\"" THEN <<"\"", "\"">> ELSE <<t[i]>>])

\* `"${inc.description.replace(/"/g, '""')}"`
QuotedField(t) == <<"\"">> \o DoubleQuotes(t) \o <<"\"">>

\* The header line and the seven fields in front of the description, each
\* taken as one symbol
Headers == <<<<"ID">>, <<"Timestamp">>, <<"Type">>, <<"Severity">>, <<"Region">>, <<"Status">>, <<"Confidence">>, <<"Description">>>>

Row(inc) ==
  <<<<inc.id>>, <<"timestamp">>, <<inc.type>>, <<"severity">>, <<"region">>, <<inc.status>>, <<"confidence">>,
    QuotedField(inc.description.val)>>

\* [headers.join(","), ...rows.map(r => r.join(","))].join("\n")
CsvContent(incs) ==
  Join(<<Join(Headers, <<",">>)>> \o [i \in DOMAIN incs |-> Join(Row(incs[i]), <<",">>)], <<"\n">>)

\* encodeURI: the line feed and the double quote are escaped, the letters,
\* the comma and the number sign are not.
EncodeURI(t) ==
  [i \in DOMAIN t |-> CASE t[i] = "\n" -> "%0A" [] t[i] = "\"" -> "%22" [] OTHER -> t[i]]

RECURSIVE BeforeFragment(_)
\* The part of a URL in front of its first number sign
BeforeFragment(t) == IF t = <<>> \/ Head(t) = "#" THEN <<>> ELSE <<Head(t)>> \o BeforeFragment(Tail(t))

\* The file the browser saves for a link to a data URL: the body of the
\* URL, without its fragment, with the escapes undone.
Download(href) ==
  LET body == BeforeFragment(href)
  IN [i \in DOMAIN body |-> CASE body[i] = "%0A" -> "\n" [] body[i] = "%22" -> "\"" [] OTHER -> body[i]]

\* handleExportCSV up to link.click(): nothing for an empty store, a
\* TypeError when a description is undefined, the saved file otherwise.
ExportCSV(incs) ==
  IF Len(incs) = 0 THEN [kind |-> "nothing"]
  ELSE IF \E i \in DOMAIN incs : ~incs[i].description.has THEN Thrown("TypeError")
  ELSE [kind |-> "file", csvContent |-> CsvContent(incs), file |-> Download(EncodeURI(CsvContent(incs)))]

\* --------------------------------------------------------- request helpers
\* The operations that send a submit request to the backend: sendMessageStream,
\* the generateContent of generateSpeech, generateVideos, and the
\* generateContent of analyzeImagery.
Kinds == {"chat", "speech", "video", "image"}

\* A handler that calls the backend once and then calls it again by itself
SubmitWithRetry(req, kind) == [req EXCEPT ![kind] = @ + 2]

\* The one call a handler makes
Submit(req, kind) == [req EXCEPT ![kind] = @ + 1]

\* ------------------------------------------------------------ card helpers
Tabs == {"dashboard", "monitor", "reports"}

Ratings == {"Correct", "Partial", "Incorrect"}

\* The object handleSubmitFeedback passes on: the rating chosen in the form
\* and the time of the submit.
Feedback(rating, now) == [accuracyRating |-> rating, timestamp |-> now]

\* prev.map(...) that sets the status of every record
UpdateEveryStatus(incs, id, status) == [i \in DOMAIN incs |-> [incs[i] EXCEPT !.status = status]]

\* prev.map(inc => inc.id === id ? { ...inc, status } : inc)
UpdateIncidentStatus(incs, id, status) ==
  [i \in DOMAIN incs |-> IF incs[i].id = id THEN [incs[i] EXCEPT !.status = status] ELSE incs[i]]

\* prev.map(inc => inc.id === id ? { ...inc, feedback, status: ... } : inc)
HandleFeedbackSubmit(incs, id, fb) ==
  [i \in DOMAIN incs |->
     IF incs[i].id = id
     THEN [incs[i] EXCEPT !.feedback = fb,
                          !.status = IF fb.accuracyRating = "Incorrect" THEN "False Positive"
                                     ELSE "Threat Confirmed"]
     ELSE incs[i]]

FieldStatuses ==
  {"Detected", "Alerted", "Investigation Pending", "Threat Confirmed", "Area Secured", "False Positive"}

\* id.substring(0, 5) of a model id, which has two characters, is the id.
StatusMessage(id, status) == "Incident " \o id \o " status changed to " \o status \o "."

FeedbackMessage(id) == "Feedback received for " \o id \o ". Agent thought signatures updating."

\* The cards are rendered on the reports tab of the logged-in application
\* (the filter stays on 'All').
CardsMounted == isAuthenticated /\ activeTab = "reports"

ClosedForms(n) == [i \in 1..n |-> FALSE]

\* The list of cards is keyed by inc.id.  When a record is put in front of
\* the list while the cards are mounted, a card keeps its state as long as
\* the keys agree position by position; from the first disagreement on, a
\* new element takes the state of the last old card with its key that no
\* earlier element has taken, and starts closed when there is none.
MatchedPrefix(newKeys, oldKeys) ==
  CHOOSE p \in 0..Len(oldKeys) :
    /\ \A i \in 1..p : newKeys[i] = oldKeys[i]
    /\ p = Len(oldKeys) \/ newKeys[p + 1] # oldKeys[p + 1]

Reconcile(newKeys, oldKeys, forms) ==
  LET p == MatchedPrefix(newKeys, oldKeys)
      rest(k) == {j \in (p + 1)..Len(oldKeys) : oldKeys[j] = k}
      last(k) == CHOOSE j \in rest(k) : \A j2 \in rest(k) : j2 <= j
      taken(i) == \E i2 \in (p + 1)..(i - 1) : newKeys[i2] = newKeys[i]
  IN [i \in 1..Len(newKeys) |->
        IF i <= p THEN forms[i]
        ELSE IF rest(newKeys[i]) # {} /\ ~taken(i) THEN forms[last(newKeys[i])]
        ELSE FALSE]

KeysOf(incs) == [i \in DOMAIN incs |-> incs[i].id]

\* ------------------------------------------------------------ chat helpers
SendSlots == 1..MaxSends

\* fullText: the handler's local; concat: history, f1 + ... + fk of the fragments
\* delivered, a fragment without text contributing none;
\* noText: history, a delivered fragment carried no text;
\* idx: history, the transcript position of the placeholder.
IdleSend == [pc |-> "idle", fullText |-> <<>>, inst |-> 0, concat |-> <<>>, noText |-> FALSE, idx |-> 0]

\* The locals of a send whose instance is unmounted can reach no state any more
\* (every setter it calls is a no-op); only its position is kept.
Orphaned(send) == IF send.pc = "idle" THEN send ELSE [IdleSend EXCEPT !.pc = send.pc, !.inst = send.inst]

\* The component instance a process was started by is still the mounted one.
Alive(i) == isAuthenticated /\ i = inst

FreeSendSlot(s) == sends[s].pc = "idle" /\ \A t \in SendSlots : t < s => sends[t].pc # "idle"

\* Faulty variant of the chunk write: the text lands in every model message.
SetModelTexts(msgs, t) ==
  [i \in DOMAIN msgs |-> IF msgs[i].role = "model" THEN [msgs[i] EXCEPT !.text = t] ELSE msgs[i]]

\* newMessages[newMessages.length - 1].text = fullText
SetLastText(msgs, t) == [msgs EXCEPT ![Len(msgs)].text = t]

\* Faulty variants of the catch block: one replaces the partial reply by the
\* error text, one swallows the error.
OnChatErrorOverwrite(msgs) == SetLastText(msgs, ChatErrorText)

OnChatErrorSilent(msgs) == msgs

\* catch (error): the synthetic error message is appended.
OnChatError(msgs) == Append(msgs, Msg("model", ChatErrorText))

\* Faulty variant of the guard: the isLoading test is missing.
SendGuardNoLoading == Trim(inputValue) # <<>>

\* if (!inputValue.trim() || isLoading) return;
SendGuard == Trim(inputValue) # <<>> /\ ~isLoading

StreamOpenIn(i) == \E s \in SendSlots : sends[s].pc \in {"opening", "streaming"} /\ sends[s].inst = i

\* ----------------------------------------------------------- video helpers
MaxJobs == 2

MaxPolls == 3

\* null of isGeneratingVideo (message indices start at 1 here, at 0 in the code)
NoIndex == 0

\* null of videoProgressInterval.current (window.setInterval returns ids > 0)
NoTimer == 0

\* REASSURING_MESSAGES.length
ReassuringCount == 5

JobSlots == 1..MaxJobs

Uris == {"u1", "u2"}

\* The operation object of the video API: done is true, false or missing;
\* uri is response.generatedVideos[0].video.uri ("" when missing).
Op(d, u, e) == [done |-> d, uri |-> u, error |-> e]

NoOp == Op("none", "", FALSE)

Running == Op("false", "", FALSE)

Completed(u) == Op("true", u, FALSE)

Failed == Op("true", "", TRUE)

Malformed == Op("undefined", "", FALSE)

StatusPayloads == {Running, Failed, Malformed, Completed("")} \cup {Completed(u) : u \in Uris}

\* while (!operation.done)
NotDone(op) == op.done # "true"

NullResult == [kind |-> "null", url |-> <<>>]

\* The promise of generateVideo is rejected instead of resolved.
Rejection == [kind |-> "exception", url |-> <<>>]

\* URL.createObjectURL(blob) of the body fetched from `${uri}&key=...`
ObjectUrl(u, status) == <<"blob", u, status>>

\* polls: status queries issued; running: history, the not-done reports received
\* (the submit response included); outstanding: status queries without a response;
\* cause and timer: history, why the job ended and the interval timer it created.
IdleJob == [pc |-> "idle", index |-> NoIndex, inst |-> 0, op |-> NoOp, polls |-> 0, running |-> 0,
            outstanding |-> 0, result |-> NullResult, cause |-> "none", timer |-> NoTimer]

FreeJobSlot(j) == jobs[j].pc = "idle" /\ \A t \in JobSlots : t < j => jobs[t].pc # "idle"

\* The Visualize button of message i is rendered and not disabled.
VideoButtonEnabled(i) ==
  /\ i \in DOMAIN messages
  /\ messages[i].role = "model"
  /\ messages[i].text # <<>>
  /\ isGeneratingVideo = NoIndex
  /\ messages[i].videoUrl = NoVideo

\* if (!agentRef.current || isGeneratingVideo !== null) return;
VideoGuard == isGeneratingVideo = NoIndex

\* Faulty variants of the poll loop: one queries again while a query is
\* pending, one queries once more after the download has started.
PollDueWhilePending(j) == jobs[j].pc \in {"sleep", "query"}

PollDueAfterDone(j) == jobs[j].pc \in {"sleep", "download"}

\* Faulty variant of the poll loop: it gives up after two status queries.
PollDueCapped(j) == jobs[j].pc = "sleep" /\ jobs[j].polls < 2

\* The poll loop is about to issue its next status query.
PollDue(j) == jobs[j].pc = "sleep"

\* The job's generateVideo call has been made and has not returned.
InFlight(j) == jobs[j].pc \in {"submit", "sleep", "query", "download"}

\* ---------------------------------------------------------- speech helpers
MaxSpeech == 2

SpeechSlots == 1..MaxSpeech

IdleSpeech == [pc |-> "idle", index |-> NoIndex, inst |-> 0]

FreeSpeechSlot(s) == speech[s].pc = "idle" /\ \A t \in SpeechSlots : t < s => speech[t].pc # "idle"

\* The Listen button of message i is rendered and not disabled.
SpeechButtonEnabled(i) ==
  /\ i \in DOMAIN messages
  /\ messages[i].role = "model"
  /\ messages[i].text # <<>>
  /\ isSpeaking = NoIndex

\* if (!agentRef.current || isSpeaking !== null) return;
SpeechGuard == isSpeaking = NoIndex

\* How the part of handleSpeech after await generateSpeech can go: the
\* operation returned null; the audio is decoded and started; atob or the
\* Int16Array view throws; the AudioContext constructor throws.
SpeechResults == {"null", "playable", "undecodable", "noContext"}

\* if (!audioContextRef.current) { audioContextRef.current = new AudioContext(...) }
NeedsContext(k) == ~audioContextRef[k]

\* Faulty variant: the catch block does not return the control to idle.
ClearsSpeakingOnNull(r) == r = "null"

\* handleSpeech itself calls setIsSpeaking(null): in the else branch and in
\* the catch block; after source.start() it leaves that to onended.
ClearsSpeaking(r) == r \in {"null", "undecodable", "noContext"}

\* ------------------------------------------------------------------- Init
InitExceptLog ==
  /\ isAuthenticated = FALSE
  /\ authMode = "login"
  /\ authLoading = FALSE
  /\ inst = 0
  /\ incidents = <<>>
  /\ isAnalyzing = FALSE
  /\ upload = IdleUpload
  /\ nUploads = 0
  /\ outcomes = {}
  /\ activeTab = "dashboard"
  /\ showFeedbackForm = <<>>
  /\ nSubmits = 0
  /\ messages = InitialMessages
  /\ inputValue = <<>>
  /\ isLoading = FALSE
  /\ sends = [s \in SendSlots |-> IdleSend]
  /\ nSends = 0
  /\ nChunks = 0
  /\ sendRejected = FALSE
  /\ nFailed = 0
  /\ interrupted = {}
  /\ hasAistudio \in BOOLEAN
  /\ isGeneratingVideo = NoIndex
  /\ videoProgressMsg = 0
  /\ videoRef = [i \in 1..MaxMounts |-> NoTimer]
  /\ timers = <<>>
  /\ jobs = [j \in JobSlots |-> IdleJob]
  /\ nJobs = 0
  /\ isSpeaking = NoIndex
  /\ speech = [s \in SpeechSlots |-> IdleSpeech]
  /\ nSpeech = 0
  /\ audioContextRef = [i \in 1..MaxMounts |-> FALSE]
  /\ nContexts = 0
  /\ requests = [k \in Kinds |-> 0]

\* No utility function is being exercised.
NoTools ==
  /\ pcm = NoCall
  /\ decoded = NotDecoded
  /\ exported = NotExported

Init == InitExceptLog /\ agentLog = InitialLog /\ NoTools

\* ------------------------------------------------------------ App: the gate
SetAuthMode(m) ==
  /\ ~isAuthenticated
  /\ authMode # m
  /\ authMode' = m
  /\ UNCHANGED <<isAuthenticated, authLoading, agentLog, inst, storeVars, messages, chatVars, videoVars, speechVars>>
  /\ UNCHANGED <<requests, toolVars>>

HandleLogin ==
  /\ ~isAuthenticated
  /\ ~authLoading
  /\ inst < MaxMounts
  /\ authLoading' = TRUE
  /\ UNCHANGED <<isAuthenticated, authMode, agentLog, inst, storeVars, messages, chatVars, videoVars, speechVars>>
  /\ UNCHANGED <<requests, toolVars>>

\* The 1200 ms timer of handleLogin fires; <Chatbot /> mounts with fresh state.
LoginTimer ==
  /\ authLoading
  /\ isAuthenticated' = TRUE
  /\ authLoading' = FALSE
  /\ agentLog' = AddLog(agentLog, LoginMessage(authMode))
  /\ inst' = inst + 1
  /\ messages' = InitialMessages
  /\ inputValue' = <<>>
  /\ isLoading' = FALSE
  /\ nFailed' = 0
  /\ interrupted' = {}
  /\ sendRejected' = FALSE
  /\ isGeneratingVideo' = NoIndex
  /\ videoProgressMsg' = 0
  /\ isSpeaking' = NoIndex
  /\ UNCHANGED <<authMode, storeVars, sends, nSends, nChunks, hasAistudio, videoRef, timers, jobs, nJobs>>
  /\ UNCHANGED <<speech, nSpeech, audioContextRef, nContexts>>
  /\ UNCHANGED <<requests, toolVars>>

\* The power-off button: <Chatbot /> and the cards unmount, the processes
\* that were started keep running.
Logout ==
  /\ isAuthenticated
  /\ isAuthenticated' = FALSE
  /\ sends' = [s \in SendSlots |-> Orphaned(sends[s])]
  /\ showFeedbackForm' = ClosedForms(Len(incidents))
  /\ UNCHANGED <<authMode, authLoading, agentLog, inst, speechVars>>
  /\ UNCHANGED <<incidents, isAnalyzing, upload, nUploads, outcomes, activeTab, nSubmits>>
  /\ UNCHANGED <<messages, inputValue, isLoading, nSends, nChunks, sendRejected, nFailed, interrupted, videoVars>>
  /\ UNCHANGED <<requests, toolVars>>

\* ------------------------------------------------------------ Chatbot: chat
SetInput(v) ==
  /\ isAuthenticated
  /\ inputValue # v
  /\ inputValue' = v
  /\ UNCHANGED <<appVars, speechVars, videoVars, messages, isLoading, sends, nSends, nChunks, sendRejected, nFailed, interrupted>>
  /\ UNCHANGED <<requests, toolVars>>

\* handleSend up to its first await.
HandleSend ==
  /\ isAuthenticated
  /\ IF SendGuard
     THEN /\ nSends < MaxSends
          /\ \E s \in SendSlots :
               /\ FreeSendSlot(s)
               /\ sends' = [sends EXCEPT ![s] = [IdleSend EXCEPT !.pc = "opening", !.inst = inst]]
          /\ inputValue' = <<>>
          /\ messages' = Append(messages, Msg("user", Trim(inputValue)))
          /\ isLoading' = TRUE
          /\ nSends' = nSends + 1
          /\ UNCHANGED sendRejected
     ELSE /\ sendRejected' = (sendRejected \/ (StreamOpenIn(inst) /\ Trim(inputValue) # <<>>))
          /\ UNCHANGED <<messages, inputValue, isLoading, sends, nSends>>
  /\ UNCHANGED <<appVars, speechVars, videoVars, nChunks, nFailed, interrupted>>
  /\ requests' = IF SendGuard THEN Submit(requests, "chat") ELSE requests
  /\ UNCHANGED toolVars

\* sendMessageStream resolved: fullText = '' and the placeholder is appended.
StreamOpen(s) ==
  /\ sends[s].pc = "opening"
  /\ LET alive == Alive(sends[s].inst)
     IN /\ messages' = IF alive THEN Append(messages, Msg("model", <<>>)) ELSE messages
        /\ sends' = [sends EXCEPT ![s].pc = "streaming", ![s].fullText = <<>>,
                                  ![s].idx = IF alive THEN Len(messages) + 1 ELSE 0]
  /\ UNCHANGED <<appVars, speechVars, videoVars, inputValue, isLoading, nSends, nChunks, sendRejected, nFailed, interrupted>>
  /\ UNCHANGED <<requests, toolVars>>

\* One iteration of for await (const chunk of response).
StreamChunk(s, c) ==
  /\ sends[s].pc = "streaming"
  /\ nChunks < MaxChunks
  /\ nChunks' = nChunks + 1
  /\ LET full == AppendChunk(sends[s].fullText, c)
     IN IF Alive(sends[s].inst)
        THEN /\ sends' = [sends EXCEPT ![s].fullText = full,
                                       ![s].concat = @ \o (IF c.hasText THEN c.text ELSE <<>>),
                                       ![s].noText = @ \/ ~c.hasText]
             /\ messages' = SetLastText(messages, full)
        ELSE UNCHANGED <<sends, messages>>
  /\ UNCHANGED <<appVars, speechVars, videoVars, inputValue, isLoading, nSends, sendRejected, nFailed, interrupted>>
  /\ UNCHANGED <<requests, toolVars>>

\* The stream closes: finally { setIsLoading(false) }.
StreamEnd(s) ==
  /\ sends[s].pc = "streaming"
  /\ isLoading' = IF Alive(sends[s].inst) THEN FALSE ELSE isLoading
  /\ sendRejected' = IF Alive(sends[s].inst) THEN FALSE ELSE sendRejected
  /\ sends' = [sends EXCEPT ![s] = IdleSend]
  /\ UNCHANGED <<appVars, speechVars, videoVars, messages, inputValue, nSends, nChunks, nFailed, interrupted>>
  /\ UNCHANGED <<requests, toolVars>>

\* sendMessageStream rejects, or the iterator throws: catch, then finally.
StreamFail(s) ==
  /\ sends[s].pc \in {"opening", "streaming"}
  /\ LET alive == Alive(sends[s].inst)
     IN /\ messages' = IF alive THEN OnChatError(messages) ELSE messages
        /\ isLoading' = IF alive THEN FALSE ELSE isLoading
        /\ nFailed' = IF alive THEN nFailed + 1 ELSE nFailed
        /\ sendRejected' = IF alive THEN FALSE ELSE sendRejected
        /\ interrupted' = IF alive /\ sends[s].pc = "streaming"
                          THEN interrupted \cup {[idx |-> sends[s].idx, prefix |-> sends[s].fullText,
                                                  concat |-> sends[s].concat, noText |-> sends[s].noText]}
                          ELSE interrupted
  /\ sends' = [sends EXCEPT ![s] = IdleSend]
  /\ UNCHANGED <<appVars, speechVars, videoVars, inputValue, nSends, nChunks>>
  /\ UNCHANGED <<requests, toolVars>>

\* ----------------------------------------------------------- Chatbot: video
\* Lines 123-131 of handleGenerateVideo, run by job j for message i of instance k:
\* the busy flag, the progress timer, and the call of generateVideo.
StartJob(j, i, k) ==
  /\ isGeneratingVideo' = IF Alive(k) THEN i ELSE isGeneratingVideo
  /\ timers' = Append(timers, [active |-> TRUE, inst |-> k, msgIndex |-> 0])
  /\ videoRef' = [videoRef EXCEPT ![k] = Len(timers) + 1]
  /\ jobs' = [jobs EXCEPT ![j] = [IdleJob EXCEPT !.pc = "submit", !.index = i, !.inst = k,
                                                 !.timer = Len(timers) + 1]]

\* A click on Visualize: handleGenerateVideo up to its first await.
HandleGenerateVideo(i) ==
  /\ isAuthenticated
  /\ VideoButtonEnabled(i)
  /\ VideoGuard
  /\ nJobs < MaxJobs
  /\ nJobs' = nJobs + 1
  /\ \E j \in JobSlots :
       /\ FreeJobSlot(j)
       /\ IF hasAistudio
          THEN /\ jobs' = [jobs EXCEPT ![j] = [IdleJob EXCEPT !.pc = "keyCheck", !.index = i, !.inst = inst]]
               /\ UNCHANGED <<isGeneratingVideo, timers, videoRef>>
          ELSE StartJob(j, i, inst)
  /\ UNCHANGED <<appVars, speechVars, messages, chatVars, hasAistudio, videoProgressMsg>>
  /\ UNCHANGED <<requests, toolVars>>

\* await aistudio.hasSelectedApiKey() resolved, and window.confirm when it is false.
KeyCheckDone(j, r) ==
  /\ jobs[j].pc = "keyCheck"
  /\ CASE r = "selected" -> StartJob(j, jobs[j].index, jobs[j].inst)
       [] r = "confirm" -> /\ jobs' = [jobs EXCEPT ![j].pc = "selectKey"]
                           /\ UNCHANGED <<isGeneratingVideo, timers, videoRef>>
       [] r = "decline" -> /\ jobs' = [jobs EXCEPT ![j] = IdleJob]
                           /\ UNCHANGED <<isGeneratingVideo, timers, videoRef>>
  /\ UNCHANGED <<appVars, speechVars, messages, chatVars, hasAistudio, videoProgressMsg, nJobs>>
  /\ UNCHANGED <<requests, toolVars>>

\* await aistudio.openSelectKey() resolved.
SelectKeyDone(j) ==
  /\ jobs[j].pc = "selectKey"
  /\ StartJob(j, jobs[j].index, jobs[j].inst)
  /\ UNCHANGED <<appVars, speechVars, messages, chatVars, hasAistudio, videoProgressMsg, nJobs>>
  /\ UNCHANGED <<requests, toolVars>>

\* generateVideo after `operation` was assigned: the loop test, then lines 420-421.
AfterReport(job, op) ==
  LET counted == [job EXCEPT !.op = op, !.running = IF NotDone(op) THEN @ + 1 ELSE @]
  IN IF NotDone(op) THEN [counted EXCEPT !.pc = "sleep"]
     ELSE IF op.uri = "" THEN [counted EXCEPT !.pc = "returned", !.result = NullResult,
                                              !.cause = IF op.error THEN "failedStatus" ELSE "noLocator"]
     ELSE [counted EXCEPT !.pc = "download"]

\* catch (error) { return null; }
AfterThrow(job) == [job EXCEPT !.pc = "returned", !.result = NullResult, !.cause = "transport"]

JobFrame == UNCHANGED <<appVars, speechVars, messages, chatVars, hasAistudio, isGeneratingVideo, videoProgressMsg, videoRef, timers, nJobs>>

\* new GoogleGenAI(...) of line 403 throws (the browser client refuses an
\* apiKey that is undefined): the statement is outside the try block, so the
\* promise generateVideo returned is rejected.
ConstructThrow(j) ==
  /\ jobs[j].pc = "submit"
  /\ jobs' = [jobs EXCEPT ![j] = [@ EXCEPT !.pc = "returned", !.result = Rejection, !.cause = "construction"]]
  /\ JobFrame
  /\ UNCHANGED <<requests, toolVars>>

\* await veoAi.models.generateVideos(...) resolved.
SubmitDone(j, op) ==
  /\ jobs[j].pc = "submit"
  /\ jobs' = [jobs EXCEPT ![j] = AfterReport(@, op)]
  /\ JobFrame
  /\ requests' = Submit(requests, "video")
  /\ UNCHANGED toolVars

SubmitThrow(j) ==
  /\ jobs[j].pc = "submit"
  /\ jobs' = [jobs EXCEPT ![j] = AfterThrow(@)]
  /\ JobFrame
  /\ requests' = Submit(requests, "video")
  /\ UNCHANGED toolVars

\* The 5 s sleep is over: getVideosOperation is called.
IssuePoll(j) ==
  /\ PollDue(j)
  /\ jobs[j].polls < MaxPolls
  /\ jobs' = [jobs EXCEPT ![j].pc = "query", ![j].polls = @ + 1, ![j].outstanding = @ + 1]
  /\ JobFrame
  /\ UNCHANGED <<requests, toolVars>>

\* await veoAi.operations.getVideosOperation(...) resolved.
QueryDone(j, op) ==
  /\ jobs[j].pc = "query"
  /\ jobs[j].outstanding > 0
  /\ jobs' = [jobs EXCEPT ![j] = AfterReport([@ EXCEPT !.outstanding = @ - 1], op)]
  /\ JobFrame
  /\ UNCHANGED <<requests, toolVars>>

QueryThrow(j) ==
  /\ jobs[j].pc = "query"
  /\ jobs[j].outstanding > 0
  /\ jobs' = [jobs EXCEPT ![j] = AfterThrow([@ EXCEPT !.outstanding = @ - 1])]
  /\ JobFrame
  /\ UNCHANGED <<requests, toolVars>>

\* Lines 423-425: fetch, blob, createObjectURL.  fetch resolves on an HTTP error too.
DownloadDone(j, r) ==
  /\ jobs[j].pc = "download"
  /\ jobs' = [jobs EXCEPT ![j] =
       IF r = "throw" THEN [@ EXCEPT !.pc = "returned", !.result = NullResult, !.cause = "download"]
       ELSE [@ EXCEPT !.pc = "returned", !.result = [kind |-> "url", url |-> ObjectUrl(jobs[j].op.uri, r)]]]
  /\ JobFrame
  /\ UNCHANGED <<requests, toolVars>>

\* clearInterval(id)
ClearInterval(ts, id) == IF id \in DOMAIN ts THEN [ts EXCEPT ![id].active = FALSE, ![id].msgIndex = 0] ELSE ts

\* handleGenerateVideo after await generateVideo: lines 132-138, then finally.
ResumeVideo(j) ==
  /\ jobs[j].pc = "returned"
  /\ LET alive == Alive(jobs[j].inst)
         i == jobs[j].index
     IN /\ messages' = IF alive /\ jobs[j].result.kind = "url"
                       THEN [messages EXCEPT ![i].videoUrl = jobs[j].result.url]
                       ELSE messages
        /\ timers' = IF videoRef[jobs[j].inst] # NoTimer THEN ClearInterval(timers, videoRef[jobs[j].inst]) ELSE timers
        /\ isGeneratingVideo' = IF alive THEN NoIndex ELSE isGeneratingVideo
  /\ jobs' = [jobs EXCEPT ![j] = IdleJob]
  /\ UNCHANGED <<appVars, speechVars, chatVars, hasAistudio, videoProgressMsg, videoRef, nJobs>>
  /\ UNCHANGED <<requests, toolVars>>

\* The 4 s progress interval fires.
ProgressTick(t) ==
  /\ t \in DOMAIN timers
  /\ timers[t].active
  /\ LET m == (timers[t].msgIndex + 1) % ReassuringCount
     IN /\ timers' = [timers EXCEPT ![t].msgIndex = m]
        /\ videoProgressMsg' = IF Alive(timers[t].inst) THEN m ELSE videoProgressMsg
  /\ UNCHANGED <<appVars, speechVars, messages, chatVars, hasAistudio, isGeneratingVideo, videoRef, jobs, nJobs>>
  /\ UNCHANGED <<requests, toolVars>>

\* A backend that reports done, or fails the request, no later than on status
\* query number MaxPolls.
FinishingQueryDone(j, op) ==
  /\ jobs[j].polls = MaxPolls => ~NotDone(op)
  /\ QueryDone(j, op)

\* The steps one invocation takes by itself once generateVideo is called:
\* promises settle and timers fire without the user.
JobStep(j) ==
  \/ ConstructThrow(j)
  \/ \E op \in StatusPayloads : SubmitDone(j, op)
  \/ SubmitThrow(j)
  \/ IssuePoll(j)
  \/ \E op \in StatusPayloads : FinishingQueryDone(j, op)
  \/ QueryThrow(j)
  \/ \E r \in {"ok", "httpError", "throw"} : DownloadDone(j, r)
  \/ ResumeVideo(j)

\* ---------------------------------------------------- Chatbot: audio decoding
\* decodeAudioData(data, ctx, 24000, numChannels) runs on the chosen arguments.
DecodeCall ==
  /\ decoded = NotDecoded
  /\ decoded' = DecodeAudioData(pcm.data, pcm.numChannels)
  /\ UNCHANGED <<appVars, messages, chatVars, videoVars, speechVars, requests, pcm, exported>>

\* ------------------------------------------------- App: the update handlers
MaxCalls == 2

\* An id that no record has
UnknownId == "k0"

\* Stores of up to MaxRecords records, detected or alerted, whose ids may repeat
Stores ==
  UNION {[1..n -> {[Report(Response("object", TypeOf("Poaching Camp"), Num(95)), id) EXCEPT !.status = st] :
                     id \in Ids, st \in {"Detected", "Alerted"}}] : n \in 0..MaxRecords}

\* Calls of the two handlers since the login, each of which adds a log entry
CallsMade == Len(agentLog) - Len(LoginLog(1))

\* updateIncidentStatus(id, status)
CallUpdateIncidentStatus(id, status) ==
  /\ isAuthenticated
  /\ CallsMade < MaxCalls
  /\ incidents' = UpdateIncidentStatus(incidents, id, status)
  /\ agentLog' = AddLog(agentLog, StatusMessage(id, status))
  /\ UNCHANGED <<isAnalyzing, upload, nUploads, outcomes, cardVars>>
  /\ UNCHANGED <<isAuthenticated, authMode, authLoading, inst, messages, chatVars, videoVars, speechVars>>
  /\ UNCHANGED <<requests, toolVars>>

\* handleFeedbackSubmit(id, feedback)
CallHandleFeedbackSubmit(id, rating) ==
  /\ isAuthenticated
  /\ CallsMade < MaxCalls
  /\ nSubmits' = nSubmits + 1
  /\ incidents' = HandleFeedbackSubmit(incidents, id, Feedback(rating, nSubmits'))
  /\ agentLog' = AddLog(agentLog, FeedbackMessage(id))
  /\ UNCHANGED <<isAnalyzing, upload, nUploads, outcomes, activeTab, showFeedbackForm>>
  /\ UNCHANGED <<isAuthenticated, authMode, authLoading, inst, messages, chatVars, videoVars, speechVars>>
  /\ UNCHANGED <<requests, toolVars>>

\* -------------------------------------------------------------- App: export
\* A click on Export CSV: handleExportCSV.
HandleExportCSV ==
  /\ exported = NotExported
  /\ exported' = ExportCSV(incidents)
  /\ agentLog' = IF exported'.kind = "file" THEN AddLog(agentLog, "Active reports exported to CSV.") ELSE agentLog
  /\ UNCHANGED <<isAuthenticated, authMode, authLoading, inst, storeVars>>
  /\ UNCHANGED <<messages, chatVars, videoVars, speechVars, requests, pcm, decoded>>

\* ---------------------------------------------------------- Chatbot: speech
SpeechFrame == UNCHANGED <<appVars, messages, chatVars, videoVars>>

\* A click on Listen: handleSpeech up to its await.
HandleSpeech(i) ==
  /\ isAuthenticated
  /\ SpeechButtonEnabled(i)
  /\ SpeechGuard
  /\ nSpeech < MaxSpeech
  /\ nSpeech' = nSpeech + 1
  /\ isSpeaking' = i
  /\ \E s \in SpeechSlots :
       /\ FreeSpeechSlot(s)
       /\ speech' = [speech EXCEPT ![s] = [pc |-> "request", index |-> i, inst |-> inst]]
  /\ UNCHANGED <<audioContextRef, nContexts>>
  /\ SpeechFrame
  /\ requests' = Submit(requests, "speech")
  /\ UNCHANGED toolVars

\* await generateSpeech(text) resolved: lines 82-105.
SpeechDone(s, r) ==
  /\ speech[s].pc = "request"
  /\ r = "noContext" => NeedsContext(speech[s].inst)
  /\ LET k == speech[s].inst
         creates == r \in {"playable", "undecodable"} /\ NeedsContext(k)
     IN /\ audioContextRef' = IF creates THEN [audioContextRef EXCEPT ![k] = TRUE] ELSE audioContextRef
        /\ nContexts' = IF creates THEN nContexts + 1 ELSE nContexts
        /\ isSpeaking' = IF ClearsSpeaking(r) /\ Alive(k) THEN NoIndex ELSE isSpeaking
        /\ speech' = [speech EXCEPT ![s] = IF r = "playable" THEN [@ EXCEPT !.pc = "playing"] ELSE IdleSpeech]
  /\ UNCHANGED nSpeech
  /\ SpeechFrame
  /\ UNCHANGED <<requests, toolVars>>

\* source.onended fires.
PlaybackEnded(s) ==
  /\ speech[s].pc = "playing"
  /\ isSpeaking' = IF Alive(speech[s].inst) THEN NoIndex ELSE isSpeaking
  /\ speech' = [speech EXCEPT ![s] = IdleSpeech]
  /\ UNCHANGED <<nSpeech, audioContextRef, nContexts>>
  /\ SpeechFrame
  /\ UNCHANGED <<requests, toolVars>>

\* What happens to a speech request without the user.
SpeechStep(s) ==
  \/ \E r \in SpeechResults : SpeechDone(s, r)
  \/ PlaybackEnded(s)

\* -------------------------------------------------------------- App: upload
StoreFrame == UNCHANGED <<isAuthenticated, authMode, authLoading, inst, messages, chatVars, videoVars, speechVars>>

\* A file is chosen in the upload input, which is rendered while no analysis
\* is shown as running: handleFileUpload up to reader.readAsDataURL(file).
HandleFileUpload ==
  /\ isAuthenticated
  /\ activeTab = "monitor"
  /\ ~isAnalyzing
  /\ nUploads < MaxUploads
  /\ nUploads' = nUploads + 1
  /\ isAnalyzing' = TRUE
  /\ agentLog' = AddLog(agentLog, "Ingesting satellite sector imagery")
  /\ upload' = [pc |-> "reading"]
  /\ UNCHANGED <<incidents, outcomes, cardVars>>
  /\ StoreFrame
  /\ UNCHANGED <<requests, toolVars>>

\* reader.onloadend up to its await.  After a failed read reader.result is
\* null and the split of line 62 throws outside the try block.
ReaderLoadEnd(ok) ==
  /\ upload.pc = "reading"
  /\ IF ok
     THEN /\ agentLog' = AddLog(agentLog, "Analyzing change signatures & grounding facts...")
          /\ upload' = [pc |-> "analyzing"]
          /\ UNCHANGED outcomes
     ELSE /\ upload' = IdleUpload
          /\ outcomes' = outcomes \cup {Outcome("readError", NoReport, <<>>, FALSE)}
          /\ UNCHANGED agentLog
  /\ UNCHANGED <<incidents, isAnalyzing, nUploads, cardVars>>
  /\ StoreFrame
  /\ requests' = IF ok THEN Submit(requests, "image") ELSE requests
  /\ UNCHANGED toolVars

\* await analyzeImagery(...) resolved: lines 69-75, then finally.  A stored
\* record brings the reports tab to the front.
AnalysisDone(resp, id) ==
  /\ upload.pc = "analyzing"
  /\ LET result == AnalyzeImagery(resp, id)
         entry == IF result # NoReport THEN "ALERT: detected"
                  ELSE "Sector scan complete. No critical threats identified."
     IN /\ incidents' = IF result # NoReport THEN <<result>> \o incidents ELSE incidents
        /\ agentLog' = AddLog(agentLog, entry)
        /\ outcomes' = outcomes \cup {Outcome(Cause(resp), result, <<entry>>, result # NoReport)}
        /\ activeTab' = IF result # NoReport THEN "reports" ELSE activeTab
        /\ showFeedbackForm' =
             IF result = NoReport THEN showFeedbackForm
             ELSE IF CardsMounted
                  THEN Reconcile(<<id>> \o KeysOf(incidents), KeysOf(incidents), showFeedbackForm)
                  ELSE ClosedForms(Len(incidents) + 1)
  /\ isAnalyzing' = FALSE
  /\ upload' = IdleUpload
  /\ UNCHANGED <<nUploads, nSubmits>>
  /\ StoreFrame
  /\ UNCHANGED <<requests, toolVars>>

\* ---------------------------------------------------------- App: the cards
\* A tab of the navigation bar (or "view on map", which shows the
\* dashboard): the cards of the tab that is left unmount.
SetActiveTab(t) ==
  /\ isAuthenticated
  /\ activeTab # t
  /\ activeTab' = t
  /\ showFeedbackForm' = ClosedForms(Len(incidents))
  /\ UNCHANGED <<incidents, isAnalyzing, upload, nUploads, outcomes, agentLog, nSubmits>>
  /\ StoreFrame
  /\ UNCHANGED <<requests, toolVars>>

\* "Sync to Dispatch" on the card of a detected incident
SyncToDispatch(i) ==
  /\ CardsMounted
  /\ incidents[i].status = "Detected"
  /\ incidents' = UpdateIncidentStatus(incidents, incidents[i].id, "Alerted")
  /\ agentLog' = AddLog(agentLog, StatusMessage(incidents[i].id, "Alerted"))
  /\ UNCHANGED <<isAnalyzing, upload, nUploads, outcomes, cardVars>>
  /\ StoreFrame
  /\ UNCHANGED <<requests, toolVars>>

\* "Field Verification" opens the form of the card; the X of the form closes it.
SetShowFeedbackForm(i, open) ==
  /\ CardsMounted
  /\ IF open
     THEN incidents[i].status \in {"Alerted", "Investigation Pending"} /\ ~showFeedbackForm[i]
     ELSE showFeedbackForm[i]
  /\ showFeedbackForm' = [showFeedbackForm EXCEPT ![i] = open]
  /\ UNCHANGED <<incidents, isAnalyzing, upload, nUploads, outcomes, agentLog, activeTab, nSubmits>>
  /\ StoreFrame
  /\ UNCHANGED <<requests, toolVars>>

\* The form of a card is submitted with the rating chosen in it.
HandleSubmitFeedback(i, rating) ==
  /\ CardsMounted
  /\ showFeedbackForm[i]
  /\ nSubmits' = nSubmits + 1
  /\ incidents' = HandleFeedbackSubmit(incidents, incidents[i].id, Feedback(rating, nSubmits'))
  /\ agentLog' = AddLog(agentLog, FeedbackMessage(incidents[i].id))
  /\ showFeedbackForm' = [showFeedbackForm EXCEPT ![i] = FALSE]
  /\ UNCHANGED <<isAnalyzing, upload, nUploads, outcomes, activeTab>>
  /\ StoreFrame
  /\ UNCHANGED <<requests, toolVars>>

\* ----------------------------------------------------------- specifications
GateNext ==
  \/ HandleLogin
  \/ LoginTimer
  \/ Logout

ChatNext ==
  \/ \E v \in Inputs : SetInput(v)
  \/ HandleSend
  \/ \E s \in SendSlots : StreamOpen(s)
  \/ \E s \in SendSlots, c \in Chunks : StreamChunk(s, c)
  \/ \E s \in SendSlots : StreamEnd(s)
  \/ \E s \in SendSlots : StreamFail(s)

KeyNext ==
  \/ \E j \in JobSlots, r \in {"selected", "confirm", "decline"} : KeyCheckDone(j, r)
  \/ \E j \in JobSlots : SelectKeyDone(j)

JobNext ==
  \/ \E i \in DOMAIN messages : HandleGenerateVideo(i)
  \/ \E j \in JobSlots : ConstructThrow(j)
  \/ \E j \in JobSlots, op \in StatusPayloads : SubmitDone(j, op)
  \/ \E j \in JobSlots : SubmitThrow(j)
  \/ \E j \in JobSlots : IssuePoll(j)
  \/ \E j \in JobSlots, op \in StatusPayloads : QueryDone(j, op)
  \/ \E j \in JobSlots : QueryThrow(j)
  \/ \E j \in JobSlots, r \in {"ok", "httpError", "throw"} : DownloadDone(j, r)
  \/ \E j \in JobSlots : ResumeVideo(j)

StoreNext ==
  \/ HandleFileUpload
  \/ \E ok \in BOOLEAN : ReaderLoadEnd(ok)
  \/ \E resp \in Responses, id \in Ids : AnalysisDone(resp, id)
  \/ \E t \in Tabs : SetActiveTab(t)

CardNext ==
  \/ \E i \in DOMAIN incidents : SyncToDispatch(i)
  \/ \E i \in DOMAIN incidents, open \in BOOLEAN : SetShowFeedbackForm(i, open)
  \/ \E i \in DOMAIN incidents, rating \in Ratings : HandleSubmitFeedback(i, rating)

NextChat == GateNext \/ ChatNext

NextStore == GateNext \/ StoreNext

NextRegistry ==
  \/ HandleLogin
  \/ LoginTimer
  \/ StoreNext
  \/ CardNext

\* The user actions of one session, MaxOps of them in all
MaxOps == 2

OpsStarted == nSends + nSpeech + nJobs + nUploads

\* An analysis that fails, one below the threshold and one that is stored
Answers ==
  {Response("throw", NoType, Undefined)}
    \cup {Response("object", TypeOf("Poaching Camp"), c) : c \in {Num(39), Num(95)}}

\* The user types a question, opens the monitor tab, and uses the four
\* operations; the backend answers each of them in every way.
NextRequests ==
  \/ HandleLogin
  \/ LoginTimer
  \/ SetActiveTab("monitor")
  \/ SetInput(<<" ", "q", " ">>)
  \/ OpsStarted < MaxOps /\ HandleSend
  \/ OpsStarted < MaxOps /\ \E i \in DOMAIN messages : HandleSpeech(i)
  \/ OpsStarted < MaxOps /\ \E i \in DOMAIN messages : HandleGenerateVideo(i)
  \/ OpsStarted < MaxOps /\ HandleFileUpload
  \/ \E s \in SendSlots : StreamOpen(s)
  \/ \E s \in SendSlots : StreamChunk(s, Chunk(TRUE, <<"a">>))
  \/ \E s \in SendSlots : StreamEnd(s)
  \/ \E s \in SendSlots : StreamFail(s)
  \/ \E s \in SpeechSlots : SpeechStep(s)
  \/ \E j \in JobSlots : JobStep(j)
  \/ \E ok \in BOOLEAN : ReaderLoadEnd(ok)
  \/ \E resp \in Answers : AnalysisDone(resp, "k1")

\* A job that the backend completes at once, or refuses, and the handler's
\* continuation after generateVideo returned.
VideoReturns(j) ==
  \/ SubmitDone(j, Completed("u1"))
  \/ SubmitThrow(j)
  \/ DownloadDone(j, "ok")
  \/ ResumeVideo(j)

\* The chat panel with its Visualize buttons: sends, their streams (chunks
\* with and without text), and video jobs that end while a stream is open.
NextTranscript ==
  \/ HandleLogin
  \/ LoginTimer
  \/ SetInput(<<" ", "q", " ">>)
  \/ HandleSend
  \/ \E s \in SendSlots : StreamOpen(s)
  \/ \E s \in SendSlots, c \in {Chunk(FALSE, <<>>), Chunk(TRUE, <<"a">>)} : StreamChunk(s, c)
  \/ \E s \in SendSlots : StreamEnd(s)
  \/ \E s \in SendSlots : StreamFail(s)
  \/ \E i \in DOMAIN messages : HandleGenerateVideo(i)
  \/ \E j \in JobSlots : VideoReturns(j)

\* What happens to an upload without the user: the reader ends, the
\* analysis is answered.
UploadStep ==
  \/ \E ok \in BOOLEAN : ReaderLoadEnd(ok)
  \/ \E resp \in Responses, id \in Ids : AnalysisDone(resp, id)

NextUploading ==
  \/ HandleLogin
  \/ LoginTimer
  \/ \E t \in Tabs : SetActiveTab(t)
  \/ HandleFileUpload
  \/ UploadStep

NextUpdate ==
  \/ \E id \in Ids \cup {UnknownId}, status \in FieldStatuses : CallUpdateIncidentStatus(id, status)
  \/ \E id \in Ids \cup {UnknownId}, rating \in Ratings : CallHandleFeedbackSubmit(id, rating)

NextVideo == GateNext \/ KeyNext \/ JobNext

NextPoller == GateNext \/ JobNext

NextFinishing ==
  \/ HandleLogin
  \/ LoginTimer
  \/ \E i \in DOMAIN messages : HandleGenerateVideo(i)
  \/ \E j \in JobSlots : JobStep(j)

NextSpeech ==
  \/ GateNext
  \/ \E i \in DOMAIN messages : HandleSpeech(i)
  \/ \E s \in SpeechSlots : SpeechStep(s)

\* The Listen button; a request that was sent is answered and a source that
\* was started ends.
SpecSpeech == Init /\ [][NextSpeech]_vars /\ \A s \in SpeechSlots : WF_vars(SpeechStep(s))

NextLog ==
  \/ \E m \in {"login", "register"} : SetAuthMode(m)
  \/ GateNext

\* The login screen after up to MaxRounds earlier rounds of login and logout,
\* of which only the log keeps a trace.
InitLog == InitExceptLog /\ agentLog \in {LoginLog(n) : n \in 0..MaxRounds} /\ NoTools

SpecLog == InitLog /\ [][NextLog]_vars

\* The monitor tab: uploads, their analysis and the incident store.
SpecStore == Init /\ [][NextStore]_vars

\* The chat panel: sends and their streams.
SpecChat == Init /\ [][NextChat]_vars

\* The Visualize button in an environment that provides window.aistudio or not.
SpecVideo == Init /\ [][NextVideo]_vars

\* The Visualize button in an environment without window.aistudio: the
\* invocation reaches generateVideo without an await in between.
InitPoller == Init /\ ~hasAistudio

SpecPoller == InitPoller /\ [][NextPoller]_vars

\* The reports tab in a session that stays logged in: uploads, the cards of
\* the stored incidents and their buttons and forms.
SpecRegistry == InitPoller /\ [][NextRegistry]_vars

\* decodeAudioData on every byte buffer of up to MaxBytes bytes, for one and
\* for two channels.
InitAudio ==
  InitExceptLog /\ agentLog = InitialLog /\ pcm \in Calls /\ decoded = NotDecoded /\ exported = NotExported

SpecAudio == InitAudio /\ [][DecodeCall]_vars

\* A logged-in session on the reports tab whose store holds the records incs.
StoredSession(incs) ==
  /\ isAuthenticated = TRUE
  /\ authMode = "login"
  /\ authLoading = FALSE
  /\ inst = 1
  /\ agentLog = LoginLog(1)
  /\ incidents = incs
  /\ isAnalyzing = FALSE
  /\ upload = IdleUpload
  /\ nUploads = Len(incidents)
  /\ outcomes = {}
  /\ activeTab = "reports"
  /\ showFeedbackForm = ClosedForms(Len(incidents))
  /\ nSubmits = 0
  /\ messages = InitialMessages
  /\ inputValue = <<>>
  /\ isLoading = FALSE
  /\ sends = [s \in SendSlots |-> IdleSend]
  /\ nSends = 0
  /\ nChunks = 0
  /\ sendRejected = FALSE
  /\ nFailed = 0
  /\ interrupted = {}
  /\ hasAistudio = FALSE
  /\ isGeneratingVideo = NoIndex
  /\ videoProgressMsg = 0
  /\ videoRef = [i \in 1..MaxMounts |-> NoTimer]
  /\ timers = <<>>
  /\ jobs = [j \in JobSlots |-> IdleJob]
  /\ nJobs = 0
  /\ isSpeaking = NoIndex
  /\ speech = [s \in SpeechSlots |-> IdleSpeech]
  /\ nSpeech = 0
  /\ audioContextRef = [i \in 1..MaxMounts |-> FALSE]
  /\ nContexts = 0
  /\ requests = [k \in Kinds |-> IF k = "image" THEN Len(incidents) ELSE 0]
  /\ NoTools

\* The Export CSV button on stores of up to MaxRecords records.
InitExport == \E n \in 0..MaxRecords : \E incs \in Registries(n) : StoredSession(incs)

SpecExport == InitExport /\ [][HandleExportCSV]_vars

\* Uploads in a session that stays logged in; a reader that was started
\* ends and an analysis that was requested is answered.
SpecUploading == InitPoller /\ [][NextUploading]_vars /\ WF_vars(UploadStep)

\* The two update handlers called with every id and value, on every store
\* of up to MaxRecords records.
InitUpdate == \E incs \in Stores : StoredSession(incs)

SpecUpdate == InitUpdate /\ [][NextUpdate]_vars

\* One session with all four operations that call the backend: chat, speech,
\* video and image analysis, interleaved in every order.
SpecRequests == InitPoller /\ [][NextRequests]_vars

\* The Visualize button without window.aistudio in a session that stays
\* logged in, against a backend that ends every job within MaxPolls status
\* queries; the event loop runs every continuation that is ready.
SpecFinishing == InitPoller /\ [][NextFinishing]_vars /\ \A j \in JobSlots : WF_vars(JobStep(j))

\* Chat and video generation in one panel, in a session that stays logged in.
SpecTranscript == InitPoller /\ [][NextTranscript]_vars

\* ------------------------------------------------------ properties: store
\* C1: every record in the incident store has a non-empty type and a
\* numeric confidence of at least 0.4.
C1_StoredAboveThreshold ==
  \A i \in DOMAIN incidents :
    /\ incidents[i].type # ""
    /\ incidents[i].confidence.kind = "number"
    /\ incidents[i].confidence.pct >= ConfidenceThreshold

\* ------------------------------------------------------- properties: chat
OpenStream(s) == sends[s].pc \in {"opening", "streaming"}

LiveStream(s) == sends[s].pc = "streaming" /\ Alive(sends[s].inst)

IsErrorMessage(m) == m = Msg("model", ChatErrorText)

ErrorMessages == {i \in DOMAIN messages : IsErrorMessage(messages[i])}

\* C2: a Chatbot instance never has two chat streams open at once: a send
\* invoked while a stream is open is refused, and the stream being consumed
\* is the only writer of the transcript, whose last message is its
\* placeholder and holds exactly what that stream has accumulated.
C2_OneStreamInFlight ==
  /\ \A s, t \in SendSlots :
       (OpenStream(s) /\ OpenStream(t) /\ sends[s].inst = sends[t].inst) => s = t
  /\ \A s \in SendSlots :
       LiveStream(s) => /\ sends[s].idx = Len(messages)
                        /\ messages[sends[s].idx].role = "model"
                        /\ messages[sends[s].idx].text = sends[s].fullText
  /\ \A s \in SendSlots : (OpenStream(s) /\ Alive(sends[s].inst)) => isLoading

\* A non-blank send was refused while a stream that has published text is open.
C2_Witness ==
  /\ sendRejected
  /\ Trim(inputValue) # <<>>
  /\ \E s \in SendSlots : LiveStream(s) /\ sends[s].fullText # <<>>

\* C4: while a stream is consumed, the text published in the model message
\* is the concatenation f1 + ... + fk of the fragments delivered so far, a
\* fragment without text contributing nothing.
C4_PublishedIsConcatenation ==
  \A s \in SendSlots : LiveStream(s) => messages[sends[s].idx].text = sends[s].concat

\* C5: after a stream failed mid-way, the model message of that stream is
\* still in the transcript at its position, holds the text accumulated up to
\* the failure, and is directly followed by the error message.
C5_PrefixRetained ==
  \A r \in interrupted :
    /\ r.idx + 1 \in DOMAIN messages
    /\ messages[r.idx].role = "model"
    /\ messages[r.idx].text = r.prefix
    /\ IsErrorMessage(messages[r.idx + 1])

\* A stream failed after it had published two fragments.
C5_Witness == \E r \in interrupted : Len(r.prefix) = 2 /\ ~r.noText

\* C6: the transcript holds exactly one error message per failed send of the
\* mounted instance, whether the send failed before or after its stream
\* opened; a send that succeeds adds none.
C6_OneErrorPerFailure == Cardinality(ErrorMessages) = nFailed

\* One send failed mid-stream and one send succeeded: greeting, user,
\* partial reply, error, user, reply.
C6_Witness ==
  /\ nFailed = 1
  /\ Cardinality(interrupted) = 1
  /\ ~isLoading
  /\ Len(messages) = 6

\* ------------------------------------------------------ properties: video
ReportedDone(op) == op.done = "true"

Abandoned(j) == jobs[j].pc # "idle" /\ ~Alive(jobs[j].inst)

\* The queries of a job are counted against the reports it received: a job
\* that received r not-done reports (the submit response among them) has
\* issued r - 1 queries while it sleeps and r queries otherwise, so a job
\* whose k-th query is the first to report done has issued exactly k, and
\* none is pending or issued once the loop is left.
QueryCount(j) ==
  /\ jobs[j].pc = "sleep" => ~ReportedDone(jobs[j].op) /\ jobs[j].polls + 1 = jobs[j].running
  /\ jobs[j].pc = "query" => ~ReportedDone(jobs[j].op) /\ jobs[j].polls = jobs[j].running
  /\ jobs[j].pc \in {"download", "returned"} => jobs[j].polls = jobs[j].running /\ jobs[j].outstanding = 0
  /\ jobs[j].pc = "download" => ReportedDone(jobs[j].op) /\ jobs[j].op.uri # ""

Resolved(j) == jobs[j].pc = "returned" /\ jobs[j].result.kind = "url"

\* C3: a Chatbot instance never has two generateVideo calls in flight.
C3_OneJobInFlight ==
  \A j, k \in JobSlots : (InFlight(j) /\ InFlight(k) /\ jobs[j].inst = jobs[k].inst) => j = k

\* C7 (as amended): a job whose k-th status query is the first report of
\* done has issued exactly k queries and issues none afterwards; when it
\* resolves with a value, the backend had reported done and the value is the
\* object URL of the body fetched from the locator the backend declared.
C7_ExactlyKQueries ==
  \A j \in JobSlots :
    /\ QueryCount(j)
    /\ Resolved(j) => /\ ReportedDone(jobs[j].op)
                      /\ \E st \in {"ok", "httpError"} : jobs[j].result.url = ObjectUrl(jobs[j].op.uri, st)

\* Two not-done answers, done with a locator on the third query, resolved.
C7_Witness ==
  \E j \in JobSlots : Resolved(j) /\ jobs[j].polls = 3 /\ jobs[j].running = 3 /\ jobs[j].op = Completed("u1")

\* C7 (as stated): the same count of queries, and the value the job resolves
\* with is the locator the backend declared.
C7_ResolvesWithLocator ==
  \A j \in JobSlots :
    /\ QueryCount(j)
    /\ Resolved(j) => jobs[j].result.url = <<jobs[j].op.uri>>

\* C8: a job that ended on a failure status or on a transport error has the
\* outcome JobFailed, and a job whose last payload is malformed is not
\* polling any more.
C8_JobFailedOutcome ==
  \A j \in JobSlots :
    /\ (jobs[j].pc = "returned" /\ jobs[j].cause \in {"failedStatus", "transport"}) => jobs[j].result.kind = "JobFailed"
    /\ jobs[j].op = Malformed => jobs[j].pc \notin {"sleep", "query"}

\* C9: a job never has more than one status query without a response, and
\* none while it sleeps before the next query.
C9_NoOverlappingPolls ==
  \A j \in JobSlots :
    /\ jobs[j].outstanding <= 1
    /\ jobs[j].pc = "sleep" => jobs[j].outstanding = 0

\* A second query of the same job is pending.
C9_Witness == \E j \in JobSlots : jobs[j].pc = "query" /\ jobs[j].polls = 2 /\ jobs[j].outstanding = 1

\* C10: the progress timer of a job whose Chatbot instance is unmounted is
\* not active, and such a job issues no status query.
C10_AbandonedJobStops ==
  /\ [](\A j \in JobSlots : (Abandoned(j) /\ jobs[j].timer # NoTimer) => ~timers[jobs[j].timer].active)
  /\ [][\A j \in JobSlots : Abandoned(j) => jobs'[j].polls <= jobs[j].polls]_vars

\* The invocation of handleGenerateVideo that created timer t has not yet left
\* its finally block.
TimerOwned(t) == \E j \in JobSlots : jobs[j].timer = t /\ (InFlight(j) \/ jobs[j].pc = "returned")

\* C11: every progress timer that is still active belongs to an invocation of
\* handleGenerateVideo that has not yet left its finally block, and no video
\* is attached to a message other than an object URL a job resolved with.
C11_TimersClearedOnExit ==
  /\ \A t \in DOMAIN timers : timers[t].active => TimerOwned(t)
  /\ \A i \in DOMAIN messages : messages[i].videoUrl # NoVideo => messages[i].videoUrl[1] = "blob"

\* The busy flag shows the message of the live invocation.
Busy(j) == Alive(jobs[j].inst) => isGeneratingVideo = jobs[j].index

\* The poll loop is left only on a report of done or on a failed request.
LoopExit(j) ==
  (jobs[j].pc \in {"sleep", "query"} /\ jobs'[j].pc \notin {"sleep", "query"})
    => (ReportedDone(jobs'[j].op) \/ jobs'[j].cause = "transport")

\* C12: against a backend that ends the job, every generateVideo call
\* returns and its invocation leaves handleGenerateVideo, after which the
\* busy flag of a mounted Chatbot is cleared; until then the busy flag stays
\* set, and nothing but a report of done or a failed request ends the poll
\* loop, however many status queries were answered not-done.
C12_ReturnsWhenBackendEnds ==
  /\ \A j \in JobSlots : InFlight(j) ~> (jobs[j].pc = "idle")
  /\ (isGeneratingVideo # NoIndex) ~> (isGeneratingVideo = NoIndex)
  /\ [](\A j \in JobSlots : InFlight(j) => Busy(j))
  /\ [][\A j \in JobSlots : LoopExit(j)]_vars

\* A job still polls after MaxPolls - 1 answers of not-done, the busy flag set.
C12_Witness ==
  \E j \in JobSlots :
    /\ jobs[j].pc = "query"
    /\ jobs[j].polls = MaxPolls
    /\ Alive(jobs[j].inst)
    /\ isGeneratingVideo = jobs[j].index

\* C13: every record in the incident store has all the members the schema
\* requires: type, severity, description, a numeric confidence and a
\* reasoning object with its four members.
C13_StoredRecordsComplete ==
  \A i \in DOMAIN incidents :
    /\ incidents[i].type # ""
    /\ incidents[i].severity
    /\ incidents[i].description
    /\ incidents[i].confidence.kind = "number"
    /\ incidents[i].reasoning = "complete"

\* C14: an analysis that was rejected by the threshold test and an analysis
\* that failed in the request or in parsing never end with the same returned
\* value and the same log entry.
C14_NoAlertDistinctFromFailure ==
  \A a, b \in outcomes :
    (a.cause = "belowThreshold" /\ b.cause = "failure") => (a.returned # b.returned \/ a.logged # b.logged)

\* C15: the promise of generateVideo is never rejected: whatever fails inside
\* the operation, its caller resumes with a value.
C15_NoExceptionEscapes ==
  \A j \in JobSlots : jobs[j].pc = "returned" => jobs[j].result.kind # "exception"

\* C16: every speech request ends, and with it the speaking state of a
\* mounted Chatbot; the control shows a message as being spoken only while
\* the request for it waits for generateSpeech or its audio plays.
C16_SpeechReturnsToIdle ==
  /\ \A s \in SpeechSlots : (speech[s].pc # "idle") ~> (speech[s].pc = "idle")
  /\ (isAuthenticated /\ isSpeaking # NoIndex) ~> (~isAuthenticated \/ isSpeaking = NoIndex)
  /\ []((isAuthenticated /\ isSpeaking # NoIndex) =>
         \E s \in SpeechSlots : speech[s].pc # "idle" /\ Alive(speech[s].inst) /\ speech[s].index = isSpeaking)

\* The audio of a request is playing and the control shows it.
C16_Witness ==
  \E s \in SpeechSlots : speech[s].pc = "playing" /\ Alive(speech[s].inst) /\ isSpeaking = speech[s].index

\* C20: the page never holds more than one AudioContext.
C20_OneAudioContext == nContexts <= 1

\* C17: an upload that ended in a failed read, a failed request or an
\* unparseable answer added exactly one entry to the log for its outcome and
\* left the store as it was.
C17_FailureLoggedOnce ==
  \A o \in outcomes : o.cause \in {"failure", "readError"} => (Len(o.logged) = 1 /\ ~o.stored)

\* The step prepended one entry and kept the previous entries in their
\* order, all of them or all but the oldest when the log was full.
Prepended ==
  \E kept \in {Len(agentLog), LogCap - 1} :
    /\ kept <= Len(agentLog)
    /\ Len(agentLog) < LogCap => kept = Len(agentLog)
    /\ Len(agentLog') = kept + 1
    /\ \A i \in 1..kept : agentLog'[i + 1] = agentLog[i]

\* C18: the agent log never holds more than 20 entries, and every step that
\* changes it prepends one entry, keeps the previous entries in their order
\* and drops only the oldest one, and only when the log already held 20.
C18_LogCappedNewestFirst ==
  /\ [](Len(agentLog) <= LogCap)
  /\ [][agentLog' # agentLog => Prepended]_vars

\* The log is full, both initial entries are evicted, the newest entry is
\* the one of the login that just happened.
C18_Witness ==
  /\ isAuthenticated
  /\ Len(agentLog) = LogCap
  /\ agentLog[1] = LoginMessage("register")
  /\ \A i \in DOMAIN agentLog : agentLog[i] \notin {InitialLog[1], InitialLog[2]}

\* C19: feedback is attached at most once to each record: once a record
\* carries a FieldFeedback no later step replaces or re-attaches it, and the
\* step that attaches it sets the status to 'False Positive' for the rating
\* 'Incorrect' and to 'Threat Confirmed' otherwise.
C19_FeedbackAttachedOnce ==
  [][\A i \in DOMAIN incidents :
       LET j == i + Len(incidents') - Len(incidents)
       IN /\ incidents[i].feedback # NoFeedback => incidents'[j].feedback = incidents[i].feedback
          /\ (incidents[i].feedback = NoFeedback /\ incidents'[j].feedback # NoFeedback) =>
               incidents'[j].status = IF incidents'[j].feedback.accuracyRating = "Incorrect"
                                      THEN "False Positive" ELSE "Threat Confirmed"]_vars

\* Invocations that were accepted and have not reached their submit request
AwaitingSubmit(kind) ==
  CASE kind = "video" -> Cardinality({j \in JobSlots : jobs[j].pc \in {"keyCheck", "selectKey", "submit"}})
    [] kind = "image" -> IF upload.pc = "reading" THEN 1 ELSE 0
    [] OTHER -> 0

Accepted(kind) ==
  CASE kind = "chat" -> nSends
    [] kind = "speech" -> nSpeech
    [] kind = "video" -> nJobs
    [] kind = "image" -> nUploads

\* C21: no operation is retried automatically: the submit requests of each
\* kind (send, speech, video, image analysis) never outnumber the user
\* actions of that kind that have got as far as their request, whether the
\* earlier ones failed or not.
C21_NoAutomaticRetry ==
  \A kind \in Kinds : requests[kind] + AwaitingSubmit(kind) <= Accepted(kind)

\* A send and an image analysis have both failed and everything is at rest.
C21_Witness ==
  /\ nFailed = 1
  /\ \E o \in outcomes : o.cause = "failure"
  /\ requests["chat"] = 1 /\ requests["image"] = 1
  /\ upload = IdleUpload
  /\ \A s \in SendSlots : sends[s] = IdleSend

\* ------------------------------------------------------ properties: audio
\* The signed 16-bit little-endian value at a byte offset (from 0)
Int16LE(buffer, offset) ==
  LET u == buffer[offset + 1] + 256 * buffer[offset + 2]
  IN IF u >= 32768 THEN u - 65536 ELSE u

\* The number N of a buffer of 2 * channelCount * N bytes
Frames(call) == Len(call.data) \div (2 * call.numChannels)

WholeFrames(call) == Len(call.data) % (2 * call.numChannels) = 0

\* The buffer holds N frames per channel and sample i of channel c is the
\* 16-bit value at byte offset (i * channelCount + c) * 2, divided by 32768.
Deinterleaved(call, buf) ==
  /\ buf.kind = "buffer"
  /\ buf.numberOfChannels = call.numChannels
  /\ buf.length = Frames(call)
  /\ \A c \in 0..(call.numChannels - 1), i \in 0..(Frames(call) - 1) :
       buf.channelData[c][i] = Sample(Int16LE(call.data, (i * call.numChannels + c) * 2))

\* C22 (as stated): for every buffer of 2 * channelCount * N bytes the
\* decoding yields N frames per channel with the samples de-interleaved and
\* divided by 32768.
C22_DecodesEveryWholeBuffer ==
  (decoded # NotDecoded /\ WholeFrames(pcm)) => Deinterleaved(pcm, decoded)

\* C22 (amended): the same for every buffer of 2 * channelCount * N bytes
\* with N >= 1; for the empty buffer the decoding throws.
C22_DecodesWholeFrames ==
  (decoded # NotDecoded /\ WholeFrames(pcm)) =>
    IF Frames(pcm) >= 1 THEN Deinterleaved(pcm, decoded) ELSE decoded.kind = "throw"

\* Two frames of two channels were decoded, with a negative sample among them.
C22_Witness ==
  /\ pcm.numChannels = 2
  /\ Frames(pcm) = 2
  /\ WholeFrames(pcm)
  /\ decoded.kind = "buffer"
  /\ decoded.channelData[1][1].num < 0
  /\ decoded.channelData[0][1].num > 0

Lines(t) == 1 + Cardinality({i \in DOMAIN t : t[i] = "\n"})

\* The text ends with the description as a quoted field with doubled quotes.
EndsWithQuoted(t, description) ==
  LET field == QuotedField(description)
  IN Len(t) >= Len(field) /\ SubSeq(t, Len(t) - Len(field) + 1, Len(t)) = field

\* C24: the export of n >= 1 stored records produces exactly n + 1 lines
\* for every description text, and each description is emitted as a
\* double-quoted field in which every double quote is doubled.
C24_OneLinePerRecord ==
  (exported # NotExported /\ Len(incidents) >= 1) =>
    /\ exported.kind = "file"
    /\ Lines(exported.file) = Len(incidents) + 1
    /\ exported.file = CsvContent(incidents)
    /\ EndsWithQuoted(exported.file, incidents[Len(incidents)].description.val)

\* ----------------------------------------------- properties: upload flag
\* C25: every upload that sets isAnalyzing to true sets it back to false
\* later, on every path: a stored record, a null result, an analysis error,
\* and a file read that ends with an error.
C25_AnalyzingFlagCleared == isAnalyzing ~> ~isAnalyzing

\* ------------------------------------------------------ properties: cards
\* The status changes the card's actions are meant to make
StatusMoves ==
  {<<"Detected", "Alerted">>, <<"Alerted", "Threat Confirmed">>, <<"Alerted", "False Positive">>}

\* The position in the next store of the record at position i
Later(i) == i + Len(incidents') - Len(incidents)

\* C26: an incident's status only moves Detected -> Alerted -> {Threat
\* Confirmed, False Positive}: 'Alerted' is reached only from 'Detected',
\* feedback is submitted only from 'Alerted' or 'Investigation Pending',
\* 'Threat Confirmed' and 'False Positive' are terminal, and 'Investigation
\* Pending' and 'Area Secured' are never reached.
C26_StatusMovesForward ==
  [][\A i \in DOMAIN incidents :
       LET old == incidents[i]
           new == incidents'[Later(i)]
       IN /\ new.status # old.status => <<old.status, new.status>> \in StatusMoves
          /\ new.feedback # old.feedback => old.status \in {"Alerted", "Investigation Pending"}
          /\ new.status \notin {"Investigation Pending", "Area Secured"}]_vars

\* --------------------------------------------- properties: update handlers
\* The step leaves the store as it is but for the status and the feedback of
\* the records with the given id.
OnlyTarget(id) ==
  /\ Len(incidents') = Len(incidents)
  /\ \A i \in DOMAIN incidents :
       IF incidents[i].id = id
       THEN [incidents'[i] EXCEPT !.status = incidents[i].status, !.feedback = incidents[i].feedback] = incidents[i]
       ELSE incidents'[i] = incidents[i]

\* The step is a call of one of the two handlers with the given id: the
\* entry it adds to the log names the id.
CalledWith(id) ==
  \/ \E status \in FieldStatuses : agentLog' = AddLog(agentLog, StatusMessage(id, status))
  \/ agentLog' = AddLog(agentLog, FeedbackMessage(id))

\* C27: updateIncidentStatus(id, s) and handleFeedbackSubmit(id, f) change
\* only the status and the feedback of the record whose id is the given id:
\* every other record, the order and the length of the store and the other
\* fields of the target are unchanged, and the store is unchanged when no
\* record has the id.
C27_UpdatesOnlyTarget ==
  [][\A id \in Ids \cup {UnknownId} : CalledWith(id) =>
       /\ OnlyTarget(id)
       /\ (\A i \in DOMAIN incidents : incidents[i].id # id) => incidents' = incidents]_vars

\* Two records with different ids, one of them changed by a call and the
\* other not, and a call with an id that no record has.
C27_Witness ==
  /\ Len(incidents) = 2
  /\ incidents[1].id # incidents[2].id
  /\ incidents[1].status = "Area Secured"
  /\ incidents[2].status = "Detected"
  /\ agentLog[1] = FeedbackMessage(UnknownId)

\* ------------------------------------------------ properties: transcript
\* The stream that is being read in the mounted panel wrote its placeholder
\* at position i, and that message is the last one.
CurrentPlaceholder(i) ==
  /\ i = Len(messages)
  /\ messages[i].role = "model"
  /\ \E s \in SendSlots : sends[s].pc = "streaming" /\ Alive(sends[s].inst) /\ sends[s].idx = i

\* C29: the transcript of a mounted chat panel is append-only and a stream
\* writes only the placeholder of the current send: no step removes a message
\* or changes its role, and the text of a message changes only while it is
\* that placeholder, in every interleaving of sends, chunks, stream errors
\* and video completions.
C29_TranscriptAppendOnly ==
  [][inst' = inst =>
       /\ Len(messages') >= Len(messages)
       /\ \A i \in DOMAIN messages :
            /\ messages'[i].role = messages[i].role
            /\ messages'[i].text # messages[i].text => CurrentPlaceholder(i)]_vars

\* A second reply is streaming while the first reply keeps its text and
\* carries the video that was generated for it.
C29_Witness ==
  /\ Len(messages) = 5
  /\ messages[2].role = "user"
  /\ messages[3].text = <<"a">>
  /\ messages[3].videoUrl # NoVideo
  /\ messages[5].text = <<"undefined">>
  /\ isLoading /\ isGeneratingVideo = NoIndex

\* ------------------------------------------------ properties: record ids
\* C28: the records of the incident store have pairwise distinct ids after
\* any sequence of analyses, so an update addressed by id reaches one record.
C28_DistinctIds ==
  \A i, j \in DOMAIN incidents : incidents[i].id = incidents[j].id => i = j

\* ---------------------------------------------------- properties: speech
\* C30: at most one speech request or playback is in flight at a time, and
\* while one is in flight in the mounted panel isSpeaking is set, so that
\* handleSpeech returns at its guard.
C30_OneSpeechInFlight ==
  /\ \A s, t \in SpeechSlots : (speech[s].pc # "idle" /\ speech[t].pc # "idle") => s = t
  /\ \A s \in SpeechSlots : (speech[s].pc # "idle" /\ Alive(speech[s].inst)) => ~SpeechGuard

====
